---------------------------- MODULE Spec2Model ----------------------------
(***************************************************************************)
(* Bend-sheet core of the TubeBendSheet add-in: CLR validation, straight   *)
(* and bend calculation, the cumulative segment / mark builder, the bend   *)
(* sheet generator, and path ordering with its alternation check.          *)
(*                                                                         *)
(* The functions are pure.  A behaviour is one invocation: Init draws the  *)
(* function and its arguments from bounded sets, the function's action     *)
(* applies it and stores what it returns (or the exception it raises).     *)
(*                                                                         *)
(* Numbers.  Python floats are modelled in fixed point: an integer n       *)
(* stands for n / TicksPerUnit.  + and - are exact, a product of two       *)
(* floats is FMul, a square root is ISqrt.  An Optional[float] is a        *)
(* sequence of length <= 1: None is << >>, the value v is << v >>.         *)
(***************************************************************************)
EXTENDS Integers, Sequences, FiniteSets

VARIABLES
    fn,     \* the function being invoked
    args,   \* its arguments
    pc,     \* "call": about to run, "return": has returned or raised
    ret,    \* what it returned; << >> before it has run
    sketch  \* the live sketch lines that entities refer to; << >> where
            \* the arguments hold the geometry themselves

vars == <<fn, args, pc, ret, sketch>>

-----------------------------------------------------------------------------
(* Bounds of the model *)

MaxStraights == 3
MaxBends == 3
MaxArcs == 3
MaxLines == 3

(* Fixed point: ticks per unit (1 tick = 0.001) *)
TicksPerUnit == 10 ^ 3

None == << >>
Some(v) == << v >>

Range(s) == {s[k] : k \in 1..Len(s)}

SeqsUpTo(S, n) == UNION {[1..k -> S] : k \in 0..n}

Min(S) == CHOOSE m \in S : \A k \in S : m <= k

Max2(a, b) == IF a >= b THEN a ELSE b

Abs(a) == IF a < 0 THEN -a ELSE a

(* float * float *)
FMul(a, b) == (a * b) \div TicksPerUnit

(* A returned value, and a raised exception *)
Returned(v) == [exception |-> "None", value |-> v]
Raised(class, message) == [exception |-> class, message |-> message]
IsRaised(r) == r.exception # "None"

-----------------------------------------------------------------------------
(* Vector math (core.geometry), over fixed-point triples *)

(* Square root, rounded down: the r with r * r <= n < (r + 1) * (r + 1) *)
RECURSIVE ISqrtBetween(_, _, _)
ISqrtBetween(n, lo, hi) ==
    IF hi - lo <= 1 THEN lo
    ELSE LET mid == (lo + hi) \div 2
         IN  IF mid * mid <= n THEN ISqrtBetween(n, mid, hi)
                               ELSE ISqrtBetween(n, lo, mid)

ISqrt(n) == ISqrtBetween(n, 0, 46340)

(* atan(2^-i) in thousandths of a degree, i = 0, 1, ... *)
AtanTable == <<45000, 26565, 14036, 7125, 3576, 1790, 895, 448, 224, 112,
               56, 28, 14, 7, 3, 2, 1>>

(* The angle of (x, y), x > 0, by rotating it onto the x axis *)
RECURSIVE Cordic(_, _, _, _)
Cordic(x, y, i, angle) ==
    IF i > Len(AtanTable) \/ y = 0 THEN angle
    ELSE LET p == 2 ^ (i - 1)
         IN  IF y > 0
             THEN Cordic(x + (y \div p), y - (x \div p), i + 1,
                         angle + AtanTable[i])
             ELSE Cordic(x - (y \div p), y + (x \div p), i + 1,
                         angle - AtanTable[i])

(* math.degrees(math.atan2(y, x)) for y >= 0, in thousandths of a degree *)
Atan2Degrees(y, x) ==
    IF y = 0 THEN (IF x >= 0 THEN 0 ELSE 180 * TicksPerUnit)
    ELSE IF x = 0 THEN 90 * TicksPerUnit
    ELSE IF x > 0 THEN Cordic(x * 256, y * 256, 1, 0)
    ELSE 180 * TicksPerUnit - Cordic((-x) * 256, y * 256, 1, 0)

(* math.radians: degrees * pi / 180, pi taken as 355 / 113 *)
Radians(degrees) == (degrees * 355) \div (113 * 180)

(* Magnitudes below 1e-10 are degenerate: below one tick *)
ZERO_MAGNITUDE_TOLERANCE == 1

magnitude(v) == ISqrt(v[1] * v[1] + v[2] * v[2] + v[3] * v[3])

dot_product(a, b) == FMul(a[1], b[1]) + FMul(a[2], b[2]) + FMul(a[3], b[3])

cross_product(a, b) ==
    <<FMul(a[2], b[3]) - FMul(a[3], b[2]),
      FMul(a[3], b[1]) - FMul(a[1], b[3]),
      FMul(a[1], b[2]) - FMul(a[2], b[1])>>

angle_between_vectors(a, b) ==
    IF magnitude(a) < ZERO_MAGNITUDE_TOLERANCE
    THEN Raised("ZeroVectorError", "First vector")
    ELSE IF magnitude(b) < ZERO_MAGNITUDE_TOLERANCE
    THEN Raised("ZeroVectorError", "Second vector")
    ELSE Returned(Atan2Degrees(magnitude(cross_product(a, b)),
                               dot_product(a, b)))

calculate_rotation(n1, n2) ==
    IF magnitude(n1) < ZERO_MAGNITUDE_TOLERANCE
    THEN Raised("ZeroVectorError", "First normal")
    ELSE IF magnitude(n2) < ZERO_MAGNITUDE_TOLERANCE
    THEN Raised("ZeroVectorError", "Second normal")
    ELSE Returned(Atan2Degrees(magnitude(cross_product(n1, n2)),
                               dot_product(n1, n2)))

Minus(p, q) == <<p[1] - q[1], p[2] - q[2], p[3] - q[3]>>

distance_between_points(p, q) == magnitude(Minus(q, p))

-----------------------------------------------------------------------------
(* validate_clr_consistency *)

(* 0.002, in ticks *)
CLR_TOLERANCE_RATIO == 2

(* The minimum tolerance 0.001, in ticks *)
CLR_TOLERANCE_FLOOR == 1

(* arc.radius (cm) in display units *)
ClrDisplay(arc, units) == FMul(arc.radius, units.cm_to_unit)

ClrValues(arcs, units) ==
    [k \in 1..Len(arcs) |-> ClrDisplay(arcs[k], units)]

(* Mutant: a zero radius is not taken as degenerate *)
IsDegenerateClr_NegativeOnly(clr) == clr < 0

IsDegenerateClr(clr) == clr <= 0

(* Mutant: no minimum floor *)
ClrTolerance_NoFloor(clr) == FMul(clr, CLR_TOLERANCE_RATIO)

ClrTolerance(clr) ==
    Max2(FMul(clr, CLR_TOLERANCE_RATIO), CLR_TOLERANCE_FLOOR)

HasMismatch(clr_values, clr) ==
    \E k \in 1..Len(clr_values) :
        Abs(clr_values[k] - clr) > ClrTolerance(clr)

validate_clr_consistency(arcs, units) ==
    LET clr_values == ClrValues(arcs, units)
    IN  IF Len(clr_values) = 0
        THEN [clr |-> 0, has_mismatch |-> FALSE, clr_values |-> << >>]
        ELSE LET clr == clr_values[1]
             IN  IF IsDegenerateClr(clr)
                 THEN [clr |-> 0, has_mismatch |-> TRUE,
                       clr_values |-> clr_values]
                 ELSE [clr |-> clr,
                       has_mismatch |-> HasMismatch(clr_values, clr),
                       clr_values |-> clr_values]

(* Arguments of validate_clr_consistency: arc radii in cm, and the unit    *)
(* configuration (cm and mm).  The radii sit on both sides of the ratio    *)
(* tolerance of 5.0 (5.010, 5.011) and of the floor of 0.010 (0.011,       *)
(* 0.012), with a zero and a negative one, and one of 0.001, the floor     *)
(* itself.                                                                 *)
Radii == {-1000, 0, 1, 10, 11, 12, 5000, 5010, 5011}
UnitConfigs == {[cm_to_unit |-> TicksPerUnit], [cm_to_unit |-> 10 * TicksPerUnit]}

ArcLists ==
    UNION {{[k \in 1..n |-> [radius |-> rs[k]]] : rs \in [1..n -> Radii]} :
           n \in 0..MaxArcs}

InitClr ==
    /\ fn = "validate_clr_consistency"
    /\ args \in [arcs : ArcLists, units : UnitConfigs]
    /\ pc = "call"
    /\ ret = << >>
    /\ sketch = << >>

ValidateClrConsistency ==
    /\ pc = "call"
    /\ fn = "validate_clr_consistency"
    /\ ret' = validate_clr_consistency(args.arcs, args.units)
    /\ pc' = "return"
    /\ UNCHANGED <<fn, args, sketch>>

NextClr == ValidateClrConsistency

SpecClr == InitClr /\ [][NextClr]_vars

-----------------------------------------------------------------------------
(* calculate_straights_and_bends *)

(* A sketch line or arc is its two sketch points' world coordinates (cm) *)
get_sketch_entity_endpoints(entity) ==
    <<entity.startSketchPoint, entity.endSketchPoint>>

LinePoints(lines) ==
    [k \in 1..Len(lines) |-> get_sketch_entity_endpoints(lines[k])]

(* Mutant: a tie swaps the endpoints *)
OrientFrom_SwapOnTie(points, ref) ==
    IF distance_between_points(points[2], ref)
           <= distance_between_points(points[1], ref)
    THEN <<points[2], points[1]>>
    ELSE points

(* An endpoint pair with the endpoint nearer to ref first *)
OrientFrom(points, ref) ==
    IF distance_between_points(points[2], ref)
           < distance_between_points(points[1], ref)
    THEN <<points[2], points[1]>>
    ELSE points

(* corrected[1..n]: the first line against path_start, each later line     *)
(* against the end of the corrected line before it.                        *)
RECURSIVE Corrected(_, _, _)
Corrected(line_points, path_start, n) ==
    IF n = 1 THEN <<OrientFrom(line_points[1], path_start)>>
    ELSE LET before == Corrected(line_points, path_start, n - 1)
         IN  Append(before, OrientFrom(line_points[n], before[n - 1][2]))

VectorOf(start, end) == Minus(end, start)

ToDisplay(p, units) ==
    <<FMul(p[1], units.cm_to_unit),
      FMul(p[2], units.cm_to_unit),
      FMul(p[3], units.cm_to_unit)>>

Straight(i, start, end, units) ==
    [number |-> i,
     length |-> FMul(magnitude(VectorOf(start, end)), units.cm_to_unit),
     start  |-> ToDisplay(start, units),
     end    |-> ToDisplay(end, units),
     vector |-> VectorOf(start, end)]

Straights(corrected, units) ==
    [i \in 1..Len(corrected) |->
        Straight(i, corrected[i][1], corrected[i][2], units)]

Vectors(corrected) ==
    [i \in 1..Len(corrected) |-> VectorOf(corrected[i][1], corrected[i][2])]

Normals(vectors, n) ==
    [i \in 1..n |-> cross_product(vectors[i], vectors[i + 1])]

(* Mutant: a degenerate straight gives the bend a zero angle *)
BendAngle_CoerceZero(vectors, i) ==
    LET a == angle_between_vectors(vectors[i], vectors[i + 1])
    IN  IF IsRaised(a) THEN Returned(0) ELSE a

(* Bend i's angle: between the vectors before and after it *)
BendAngle(vectors, i) == angle_between_vectors(vectors[i], vectors[i + 1])

(* Mutant: the angle in degrees is taken as radians *)
ArcLength_NoRadians(clr, bend_angle) == FMul(clr, bend_angle)

ArcLength(clr, bend_angle) == FMul(clr, Radians(bend_angle))

(* Mutant: the first bend is given rotation 0.0 *)
BendRotation_FirstZero(normals, i) ==
    IF i > 1 THEN LET r == calculate_rotation(normals[i - 1], normals[i])
                  IN  IF IsRaised(r) THEN r ELSE Returned(Some(r.value))
    ELSE Returned(Some(0))

(* Bend i's rotation: None for the first, else between the normals of the  *)
(* bend before it and its own.                                             *)
BendRotation(normals, i) ==
    IF i > 1 THEN LET r == calculate_rotation(normals[i - 1], normals[i])
                  IN  IF IsRaised(r) THEN r ELSE Returned(Some(r.value))
    ELSE Returned(None)

(* The loop over range(len(arcs)), from bend i on; the first exception     *)
(* raised ends it.                                                         *)
RECURSIVE BendsLoop(_, _, _, _, _, _)
BendsLoop(vectors, normals, n, clr, i, bends) ==
    IF i > n THEN Returned(bends)
    ELSE LET a == BendAngle(vectors, i)
         IN  IF IsRaised(a) THEN a
             ELSE LET r == BendRotation(normals, i)
                  IN  IF IsRaised(r) THEN r
                      ELSE BendsLoop(vectors, normals, n, clr, i + 1,
                               Append(bends,
                                      [number     |-> i,
                                       angle      |-> a.value,
                                       rotation   |-> r.value,
                                       arc_length |-> ArcLength(clr, a.value)]))

(* Mutant: empty lists are returned instead of failing *)
InsufficientVectors_EmptyResult ==
    Returned([straights |-> << >>, bends |-> << >>])

(* raise ValueError("Insufficient vectors (...) for ... bends. ...") *)
InsufficientVectors == Raised("ValueError", "Insufficient vectors")

calculate_straights_and_bends(lines, arcs, path_start, clr, units) ==
    LET line_points == LinePoints(lines)
    IN  IF Len(line_points) = 0
        THEN Raised("ValueError", "No lines provided")
        ELSE LET corrected == Corrected(line_points, path_start, Len(line_points))
                 straights == Straights(corrected, units)
                 vectors   == Vectors(corrected)
             IN  IF Len(vectors) < Len(arcs) + 1
                 THEN InsufficientVectors
                 ELSE LET normals == Normals(vectors, Len(arcs))
                          bends   == BendsLoop(vectors, normals, Len(arcs),
                                               clr, 1, << >>)
                      IN  IF IsRaised(bends) THEN bends
                          ELSE Returned([straights |-> straights,
                                         bends     |-> bends.value])

(* Arguments of calculate_straights_and_bends.  Points are the corners of  *)
(* a path along x, then y, then z; a line is stored in either direction.   *)
(* OB is a diagonal whose ends are equally far from A; AA is degenerate.   *)
PtO == <<0, 0, 0>>
PtA == <<TicksPerUnit, 0, 0>>
PtB == <<TicksPerUnit, TicksPerUnit, 0>>
PtC == <<TicksPerUnit, TicksPerUnit, TicksPerUnit>>

Points == {PtO, PtA, PtB, PtC}

SketchLine(p, q) == [startSketchPoint |-> p, endSketchPoint |-> q]

SketchLines ==
    {SketchLine(PtO, PtA), SketchLine(PtA, PtO),
     SketchLine(PtA, PtB), SketchLine(PtB, PtA),
     SketchLine(PtB, PtC), SketchLine(PtC, PtB),
     SketchLine(PtO, PtB), SketchLine(PtA, PtA)}

LineLists == SeqsUpTo(SketchLines, MaxLines)

(* The arcs of a chain; only their number is read here *)
BendArcLists ==
    {[k \in 1..n |-> [radius |-> 5 * TicksPerUnit]] : n \in 0..MaxArcs}

(* clr in display units, with the unit configuration it was found under *)
ClrAndUnits ==
    {[clr |-> 5 * TicksPerUnit, units |-> [cm_to_unit |-> TicksPerUnit]],
     [clr |-> 20 * TicksPerUnit, units |-> [cm_to_unit |-> 10 * TicksPerUnit]]}

InitBends ==
    /\ fn = "calculate_straights_and_bends"
    /\ \E lines \in LineLists, arcs \in BendArcLists,
          path_start \in Points, cu \in ClrAndUnits :
          args = [lines |-> lines, arcs |-> arcs, path_start |-> path_start,
                  clr |-> cu.clr, units |-> cu.units]
    /\ pc = "call"
    /\ ret = << >>
    /\ sketch = << >>

CalculateStraightsAndBends ==
    /\ pc = "call"
    /\ fn = "calculate_straights_and_bends"
    /\ ret' = calculate_straights_and_bends(args.lines, args.arcs,
                                            args.path_start, args.clr,
                                            args.units)
    /\ pc' = "return"
    /\ UNCHANGED <<fn, args, sketch>>

NextBends == CalculateStraightsAndBends

SpecBends == InitBends /\ [][NextBends]_vars

-----------------------------------------------------------------------------
(* build_segments_and_marks *)

StraightName(number) == <<"Straight", number>>
BendName(number) == <<"BEND", number>>

(* Mutant: the straight records the rotation of the bend before it *)
StraightRotation_PrecedingBend(bends, i) ==
    IF i > 1 /\ i - 1 <= Len(bends) THEN bends[i - 1].rotation ELSE None

(* Mutant: no straight records a rotation *)
StraightRotation_Never(bends, i) == None

(* The rotation a straight segment records: that of bends[i] if there is   *)
(* one (i is the straight's 1-based position; Python's i < len(bends)).    *)
StraightRotation(bends, i) ==
    IF i <= Len(bends) THEN bends[i].rotation ELSE None

StraightSegment(straight, bends, i, cumulative) ==
    [segment_type |-> "straight",
     name         |-> StraightName(straight.number),
     length       |-> straight.length,
     starts_at    |-> cumulative,
     ends_at      |-> cumulative + straight.length,
     bend_angle   |-> None,
     rotation     |-> StraightRotation(bends, i)]

BendSegment(bend, cumulative) ==
    [segment_type |-> "bend",
     name         |-> BendName(bend.number),
     length       |-> bend.arc_length,
     starts_at    |-> cumulative,
     ends_at      |-> cumulative + bend.arc_length,
     bend_angle   |-> Some(bend.angle),
     rotation     |-> None]

(* Mutant: cumulative is assigned, not advanced *)
AfterStraight_Assign(cumulative, straight) == straight.length

(* Mutant: the arc length is not added to cumulative *)
AfterBend_NoAdvance(cumulative, bend) == cumulative

(* cumulative after a straight, and after the bend that follows it *)
AfterStraight(cumulative, straight) == cumulative + straight.length
AfterBend(cumulative, bend) == cumulative + bend.arc_length

(* Mutant: off by one, the last bend gets no segment *)
HasBendAfter_OffByOne(bends, i) == i < Len(bends)

(* Whether straight i is followed by a bend segment *)
HasBendAfter(bends, i) == i <= Len(bends)

(* The loop over enumerate(straights), from 1-based position i on *)
RECURSIVE SegmentsLoop(_, _, _, _, _)
SegmentsLoop(straights, bends, i, cumulative, segments) ==
    IF i > Len(straights) THEN segments
    ELSE LET straight == straights[i]
             s1 == Append(segments, StraightSegment(straight, bends, i, cumulative))
             c1 == AfterStraight(cumulative, straight)
         IN  IF HasBendAfter(bends, i)
             THEN SegmentsLoop(straights, bends, i + 1,
                               AfterBend(c1, bends[i]),
                               Append(s1, BendSegment(bends[i], c1)))
             ELSE SegmentsLoop(straights, bends, i + 1, c1, s1)

(* Mutant: the timeline starts at 0 *)
TimelineStart_Zero(extra_material) == 0

(* The timeline starts at extra_material *)
TimelineStart(extra_material) == extra_material

BuildSegments(straights, bends, extra_material) ==
    SegmentsLoop(straights, bends, 1, TimelineStart(extra_material), << >>)

(* Mutant: the mark is taken where the bend ends *)
BendStartsAt_End(segments, bend) ==
    LET hits == {k \in 1..Len(segments) :
                    /\ segments[k].segment_type = "bend"
                    /\ segments[k].name = BendName(bend.number)}
    IN  IF hits = {} THEN 0 ELSE segments[Min(hits)].ends_at

(* Where a bend starts: the starts_at of the first bend segment carrying   *)
(* the bend's name, 0.0 if there is none.                                  *)
BendStartsAt(segments, bend) ==
    LET hits == {k \in 1..Len(segments) :
                    /\ segments[k].segment_type = "bend"
                    /\ segments[k].name = BendName(bend.number)}
    IN  IF hits = {} THEN 0 ELSE segments[Min(hits)].starts_at

Mark(segments, bend, die_offset) ==
    [bend_num      |-> bend.number,
     mark_position |-> BendStartsAt(segments, bend) - die_offset,
     bend_angle    |-> bend.angle,
     rotation      |-> bend.rotation]

(* Mutant: only the bends that have a segment get a mark *)
BuildMarks_SegmentedOnly(segments, bends, die_offset) ==
    LET marked == SelectSeq(bends, LAMBDA bend :
                      \E k \in 1..Len(segments) :
                          /\ segments[k].segment_type = "bend"
                          /\ segments[k].name = BendName(bend.number))
    IN  [k \in 1..Len(marked) |-> Mark(segments, marked[k], die_offset)]

BuildMarks(segments, bends, die_offset) ==
    [k \in 1..Len(bends) |-> Mark(segments, bends[k], die_offset)]

build_segments_and_marks(straights, bends, extra_material, die_offset) ==
    LET segments == BuildSegments(straights, bends, extra_material)
    IN  [segments       |-> segments,
         mark_positions |-> BuildMarks(segments, bends, die_offset)]

-----------------------------------------------------------------------------
(* Arguments of build_segments_and_marks.  A StraightSection is kept to    *)
(* the fields the builder reads (number, length); numbers are the 1-based  *)
(* positions, as calculate_straights_and_bends assigns them.               *)

StraightLengths == {0, 2 * TicksPerUnit}
ArcLengths == {TicksPerUnit, 3 * TicksPerUnit}
BendShapes == {<<45 * TicksPerUnit, None>>,
               <<90 * TicksPerUnit, Some(0)>>,
               <<90 * TicksPerUnit, Some(30 * TicksPerUnit)>>}
ExtraMaterials == {0, TicksPerUnit}
DieOffsets == {0, TicksPerUnit \div 2}

StraightLists ==
    UNION {{[k \in 1..n |-> [number |-> k, length |-> ls[k]]] :
               ls \in [1..n -> StraightLengths]} : n \in 0..MaxStraights}

BendLists ==
    UNION {{[k \in 1..n |-> [number     |-> k,
                             angle      |-> sh[k][1],
                             rotation   |-> sh[k][2],
                             arc_length |-> al[k]]] :
               sh \in [1..n -> BendShapes], al \in [1..n -> ArcLengths]} :
           n \in 0..MaxBends}

InitSegments ==
    /\ fn = "build_segments_and_marks"
    /\ args \in [straights      : StraightLists,
                 bends          : BendLists,
                 extra_material : ExtraMaterials,
                 die_offset     : DieOffsets]
    /\ pc = "call"
    /\ ret = << >>
    /\ sketch = << >>

BuildSegmentsAndMarks ==
    /\ pc = "call"
    /\ fn = "build_segments_and_marks"
    /\ ret' = build_segments_and_marks(args.straights, args.bends,
                                       args.extra_material, args.die_offset)
    /\ pc' = "return"
    /\ UNCHANGED <<fn, args, sketch>>

NextSegments == BuildSegmentsAndMarks

SpecSegments == InitSegments /\ [][NextSegments]_vars

-----------------------------------------------------------------------------
(* Any one invocation *)

(* BendSheetGenerator.generate *)

MaxPath == 5

(* [e.entity for e in ordered_path if e.element_type == kind] *)
EntitiesOfKind(ordered_path, kind) ==
    LET kept == SelectSeq(ordered_path, LAMBDA e : e.element_type = kind)
    IN  [k \in 1..Len(kept) |-> kept[k].entity]

(* Mutant: the bends are taken in reverse chain order *)
PathArcs_Reversed(ordered_path) ==
    LET arcs == EntitiesOfKind(ordered_path, "arc")
    IN  [k \in 1..Len(arcs) |-> arcs[Len(arcs) + 1 - k]]

PathLines(ordered_path) == EntitiesOfKind(ordered_path, "line")

PathArcs(ordered_path) == EntitiesOfKind(ordered_path, "arc")

(* Mutant: the die offset is not taken off the first straight *)
FirstFeed_NoDieOffset(straights, die_offset) == straights[1].length

FirstFeed(straights, die_offset) == straights[1].length - die_offset

ExtraMaterial(min_grip, first_feed) ==
    IF min_grip > 0 THEN Max2(0, min_grip - first_feed) ELSE 0

(* Mutant: the last straight is checked against min_grip as well *)
SectionsToCheck_All(straights) == straights

(* straights[:-1] *)
SectionsToCheck(straights) == SubSeq(straights, 1, Len(straights) - 1)

GripViolations(straights, min_grip) ==
    IF min_grip > 0 /\ Len(straights) > 1
    THEN LET short == SelectSeq(SectionsToCheck(straights),
                                LAMBDA s : s.length < min_grip)
         IN  [k \in 1..Len(short) |-> short[k].number]
    ELSE << >>

(* Mutant: any straight shorter than min_tail sets the flag *)
TailViolation_AnyStraight(straights, min_tail) ==
    /\ min_tail > 0
    /\ \E k \in 1..Len(straights) : straights[k].length < min_tail

TailViolation(straights, min_tail) ==
    /\ min_tail > 0
    /\ Len(straights) > 0
    /\ straights[Len(straights)].length < min_tail

RECURSIVE SumSeq(_)
SumSeq(s) == IF Len(s) = 0 THEN 0 ELSE s[1] + SumSeq(Tail(s))

TotalStraights(straights) ==
    SumSeq([k \in 1..Len(straights) |-> straights[k].length])

TotalArcs(bends) ==
    SumSeq([k \in 1..Len(bends) |-> bends[k].arc_length])

(* Mutant: the grip allowance is left out of the cut length *)
TotalCutLength_NoExtra(total_centerline, extra_material) == total_centerline

TotalCutLength(total_centerline, extra_material) ==
    total_centerline + extra_material

GenerationResult(success, data, error) ==
    [success |-> success, data |-> data, error |-> error]

SheetData(params, units, starts_with_arc, ends_with_arc, clr, straights, bends) ==
    LET first_feed       == FirstFeed(straights, params.die_offset)
        extra_material   == ExtraMaterial(params.min_grip, first_feed)
        built            == build_segments_and_marks(straights, bends,
                                extra_material, params.die_offset)
        total_centerline == TotalStraights(straights) + TotalArcs(bends)
    IN  [clr              |-> clr.clr,
         die_offset       |-> params.die_offset,
         min_grip         |-> params.min_grip,
         starts_with_arc  |-> starts_with_arc,
         ends_with_arc    |-> ends_with_arc,
         clr_mismatch     |-> clr.has_mismatch,
         clr_values       |-> clr.clr_values,
         continuity_errors |-> << >>,
         straights        |-> straights,
         bends            |-> bends,
         segments         |-> built.segments,
         mark_positions   |-> built.mark_positions,
         extra_material   |-> extra_material,
         total_centerline |-> total_centerline,
         total_cut_length |-> TotalCutLength(total_centerline, extra_material),
         units            |-> units,
         grip_violations  |-> GripViolations(straights, params.min_grip),
         min_tail         |-> params.min_tail,
         tail_violation   |-> TailViolation(straights, params.min_tail)]

(* Mutant: an exception of the calculation is turned into a failure result *)
generate_ReportsFailure(ordered_path, start_point, params, units, starts_with_arc, ends_with_arc) ==
    LET calc == calculate_straights_and_bends(PathLines(ordered_path),
                    PathArcs(ordered_path), start_point,
                    validate_clr_consistency(PathArcs(ordered_path), units).clr,
                    units)
    IN  IF IsRaised(calc)
        THEN Returned(GenerationResult(FALSE, None, calc.message))
        ELSE Returned(GenerationResult(TRUE,
                 Some(SheetData(params, units, starts_with_arc, ends_with_arc,
                                validate_clr_consistency(PathArcs(ordered_path), units),
                                calc.value.straights, calc.value.bends)),
                 ""))

(* An exception of calculate_straights_and_bends is not caught here: it    *)
(* leaves generate as it was raised.                                       *)
generate(ordered_path, start_point, params, units, starts_with_arc, ends_with_arc) ==
    LET lines == PathLines(ordered_path)
        arcs  == PathArcs(ordered_path)
        clr   == validate_clr_consistency(arcs, units)
        calc  == calculate_straights_and_bends(lines, arcs, start_point,
                                               clr.clr, units)
    IN  IF IsRaised(calc) THEN calc
        ELSE IF Len(calc.value.straights) = 0
        THEN Returned(GenerationResult(FALSE, None,
                 "No straight sections found in path. Cannot generate bend sheet."))
        ELSE Returned(GenerationResult(TRUE,
                 Some(SheetData(params, units, starts_with_arc, ends_with_arc,
                                clr, calc.value.straights, calc.value.bends)),
                 ""))

-----------------------------------------------------------------------------
(* Arguments of generate.  The ordered path is a chain that alternates     *)
(* between lines and arcs, of either kind first; generate reads an         *)
(* element's kind and entity only.  The lines run along x, along y, along  *)
(* the diagonal, and one is degenerate; the radii (cm) are 5.0, 5.011,     *)
(* which is over the tolerance of 5.0, and a negative one.                 *)

LineElement(line) == [element_type |-> "line", entity |-> line]

ArcElement(r) == [element_type |-> "arc", entity |-> [radius |-> r]]

GenLineElements ==
    {LineElement(l) : l \in {SketchLine(PtA, PtO), SketchLine(PtA, PtB),
                             SketchLine(PtO, PtB), SketchLine(PtA, PtA)}}

GenArcElements ==
    {ArcElement(r) : r \in {5 * TicksPerUnit, 5 * TicksPerUnit + 11,
                            0 - TicksPerUnit}}

RECURSIVE AlternatingPaths(_)
AlternatingPaths(n) ==
    IF n = 0 THEN {<< >>}
    ELSE {q \in {Append(p, e) : p \in AlternatingPaths(n - 1),
                                e \in GenLineElements \cup GenArcElements} :
              n = 1 \/ q[n].element_type # q[n - 1].element_type}

OrderedPaths == UNION {AlternatingPaths(n) : n \in 0..MaxPath}

(* die_offset, min_grip and min_tail in display units *)
ParamSets ==
    [die_offset : {0, TicksPerUnit \div 2},
     min_grip   : {0, (6 * TicksPerUnit) \div 5},
     min_tail   : {0, (6 * TicksPerUnit) \div 5}]

(* The start point handed over with the path, and the generator's units *)
StartAndUnits ==
    {[start_point |-> PtO, units |-> [cm_to_unit |-> TicksPerUnit]],
     [start_point |-> PtA, units |-> [cm_to_unit |-> TicksPerUnit]],
     [start_point |-> PtO, units |-> [cm_to_unit |-> 10 * TicksPerUnit]]}

InitGenerate ==
    /\ fn = "generate"
    /\ \E path \in OrderedPaths, su \in StartAndUnits, params \in ParamSets :
           args = [ordered_path    |-> path,
                   start_point     |-> su.start_point,
                   params          |-> params,
                   units           |-> su.units,
                   starts_with_arc |-> Len(path) > 0 /\ path[1].element_type = "arc",
                   ends_with_arc   |-> Len(path) > 0 /\ path[Len(path)].element_type = "arc"]
    /\ pc = "call"
    /\ ret = << >>
    /\ sketch = << >>

Generate ==
    /\ pc = "call"
    /\ fn = "generate"
    /\ ret' = generate(args.ordered_path, args.start_point, args.params,
                       args.units, args.starts_with_arc, args.ends_with_arc)
    /\ pc' = "return"
    /\ UNCHANGED <<fn, args, sketch>>

NextGenerate == Generate

SpecGenerate == InitGenerate /\ [][NextGenerate]_vars

-----------------------------------------------------------------------------
(* Path ordering (core.path_ordering) *)

MaxSelection == 3
MaxChain == 5

(* The default connectivity tolerance, 0.1 cm *)
CONNECTIVITY_TOLERANCE == TicksPerUnit \div 10

points_are_close(p, q) == distance_between_points(p, q) < CONNECTIVITY_TOLERANCE

(* PathElement: the kind and the endpoints captured from the entity *)
PathElement(element_type, p, q) ==
    [element_type |-> element_type, endpoints |-> <<p, q>>]

(* Some endpoint of one lies within the tolerance of some endpoint of the  *)
(* other.                                                                  *)
elements_are_connected(e1, e2) ==
    \E a \in 1..2, b \in 1..2 : points_are_close(e1.endpoints[a], e2.endpoints[b])

(* The elements other than i that touch endpoint a of element i *)
Touching(elements, i, a) ==
    {j \in (1..Len(elements)) \ {i} :
        \E b \in 1..2 : points_are_close(elements[i].endpoints[a],
                                         elements[j].endpoints[b])}

(* A branch: an endpoint touching more than one other element *)
HasBranch(elements) ==
    \E i \in 1..Len(elements), a \in 1..2 :
        Cardinality(Touching(elements, i, a)) > 1

(* The elements with a free end: an endpoint connected to no other element *)
WithFreeEnd(elements) ==
    {i \in 1..Len(elements) : \E a \in 1..2 : Touching(elements, i, a) = {}}

(* Walking element to element from the last of walk until no further      *)
(* connection exists.                                                      *)
RECURSIVE Walk(_, _)
Walk(elements, walk) ==
    LET next == {j \in (1..Len(elements)) \ Range(walk) :
                    elements_are_connected(elements[walk[Len(walk)]], elements[j])}
    IN  IF next = {} THEN walk
        ELSE Walk(elements, Append(walk, CHOOSE j \in next : TRUE))

PathOrderingError(message) == [ordered |-> None, error |-> message]

(* Mutant: whatever the walk reached is returned as the chain *)
OrderedOrError_Partial(elements, walk) ==
    [ordered |-> Some([k \in 1..Len(walk) |-> elements[walk[k]]]), error |-> ""]

(* No partial chain is returned: the walk has to hold every element *)
OrderedOrError(elements, walk) ==
    IF Len(walk) # Len(elements)
    THEN PathOrderingError("not one connected chain")
    ELSE [ordered |-> Some([k \in 1..Len(walk) |-> elements[walk[k]]]),
          error |-> ""]

(* The results build_ordered_path may give: the walk starts at the free    *)
(* end of an arbitrarily chosen boundary element.  A single element is a   *)
(* chain as it is.                                                         *)
build_ordered_path(elements) ==
    IF Len(elements) = 1
    THEN {[ordered |-> Some(elements), error |-> ""]}
    ELSE IF HasBranch(elements)
    THEN {PathOrderingError("branch")}
    ELSE IF WithFreeEnd(elements) = {}
    THEN {PathOrderingError("no free end")}
    ELSE IF Cardinality(WithFreeEnd(elements)) > 2
    THEN {PathOrderingError("more than two elements with a free end")}
    ELSE {OrderedOrError(elements, Walk(elements, <<first>>)) :
              first \in WithFreeEnd(elements)}

(* The first two neighbours of the same kind, from element i on; 0 if none *)
RECURSIVE FirstRepeat(_, _)
FirstRepeat(ordered, i) ==
    IF i >= Len(ordered) THEN 0
    ELSE IF ordered[i].element_type = ordered[i + 1].element_type THEN i
    ELSE FirstRepeat(ordered, i + 1)

(* Mutant: a chain has to start with a line *)
validate_path_alternation_LineFirst(ordered) ==
    IF Len(ordered) > 0 /\ ordered[1].element_type = "arc"
    THEN [is_valid |-> FALSE, error |-> Some(<<"AlternationError", 1, 1>>)]
    ELSE LET i == FirstRepeat(ordered, 1)
         IN  IF i = 0 THEN [is_valid |-> TRUE, error |-> None]
             ELSE [is_valid |-> FALSE,
                   error |-> Some(<<"AlternationError", i, i + 1>>)]

(* The error names the two offending elements by their 1-based numbers *)
validate_path_alternation(ordered) ==
    LET i == FirstRepeat(ordered, 1)
    IN  IF i = 0 THEN [is_valid |-> TRUE, error |-> None]
        ELSE [is_valid |-> FALSE,
              error |-> Some(<<"AlternationError", i, i + 1>>)]

-----------------------------------------------------------------------------
(* Arguments of build_ordered_path: a selection of lines and arcs between  *)
(* the corners O, A, B, C, with one endpoint 0.05 off A (within the        *)
(* tolerance) and one segment far from all the others.                     *)

PtNearA == <<TicksPerUnit + TicksPerUnit \div 20, 0, 0>>
PtFar1 == <<5 * TicksPerUnit, 0, 0>>
PtFar2 == <<6 * TicksPerUnit, 0, 0>>

ElementKinds == {"line", "arc"}

SelectionSpans ==
    {<<PtO, PtA>>, <<PtA, PtB>>, <<PtB, PtA>>, <<PtB, PtC>>,
     <<PtNearA, PtB>>, <<PtO, PtB>>, <<PtFar1, PtFar2>>}

SelectionElements ==
    {PathElement(k, s[1], s[2]) : k \in ElementKinds, s \in SelectionSpans}

Selections ==
    UNION {[1..n -> SelectionElements] : n \in 1..MaxSelection}

InitOrdering ==
    /\ fn = "build_ordered_path"
    /\ \E elements \in Selections : args = [elements |-> elements]
    /\ pc = "call"
    /\ ret = << >>
    /\ sketch = << >>

BuildOrderedPath ==
    /\ pc = "call"
    /\ fn = "build_ordered_path"
    /\ ret' \in build_ordered_path(args.elements)
    /\ pc' = "return"
    /\ UNCHANGED <<fn, args, sketch>>

NextOrdering == BuildOrderedPath

SpecOrdering == InitOrdering /\ [][NextOrdering]_vars

(* Arguments of validate_path_alternation: an ordered chain along x whose  *)
(* k-th element runs from x = k - 1 to x = k, of any kinds.                *)
ChainElement(kind, k) ==
    PathElement(kind, <<(k - 1) * TicksPerUnit, 0, 0>>, <<k * TicksPerUnit, 0, 0>>)

OrderedChains ==
    UNION {{[k \in 1..n |-> ChainElement(kinds[k], k)] :
               kinds \in [1..n -> ElementKinds]} : n \in 1..MaxChain}

InitAlternation ==
    /\ fn = "validate_path_alternation"
    /\ \E ordered \in OrderedChains : args = [ordered |-> ordered]
    /\ pc = "call"
    /\ ret = << >>
    /\ sketch = << >>

ValidatePathAlternation ==
    /\ pc = "call"
    /\ fn = "validate_path_alternation"
    /\ ret' = validate_path_alternation(args.ordered)
    /\ pc' = "return"
    /\ UNCHANGED <<fn, args, sketch>>

NextAlternation == ValidatePathAlternation

SpecAlternation == InitAlternation /\ [][NextAlternation]_vars

-----------------------------------------------------------------------------
(* get_free_endpoint and determine_primary_axis (core.geometry_extraction) *)

(* Endpoint ep of element i is close to an endpoint of another element of  *)
(* the list; "other is element" tells elements apart by identity, which is *)
(* the position in the list here.                                          *)
ConnectedToOther(ep, i, all_elements) ==
    \E j \in (1..Len(all_elements)) \ {i} :
        \/ points_are_close(ep, all_elements[j].endpoints[1])
        \/ points_are_close(ep, all_elements[j].endpoints[2])

(* Mutant: the endpoints are tried in reverse stored order *)
get_free_endpoint_SecondFirst(i, all_elements) ==
    LET endpoints == all_elements[i].endpoints
    IN  IF ~ConnectedToOther(endpoints[2], i, all_elements) THEN endpoints[2]
        ELSE IF ~ConnectedToOther(endpoints[1], i, all_elements) THEN endpoints[1]
        ELSE endpoints[1]

(* The element is all_elements[i] *)
get_free_endpoint(i, all_elements) ==
    LET endpoints == all_elements[i].endpoints
    IN  IF ~ConnectedToOther(endpoints[1], i, all_elements) THEN endpoints[1]
        ELSE IF ~ConnectedToOther(endpoints[2], i, all_elements) THEN endpoints[2]
        ELSE endpoints[1]

Displacement(start, end) == Minus(end, start)

Max3(a, b, c) == Max2(Max2(a, b), c)

(* Mutant: on a tie the later axis is taken *)
PrimaryIndex_LastOnTie(abs_disp, max_disp) ==
    IF abs_disp[3] = max_disp THEN 3
    ELSE IF abs_disp[2] = max_disp THEN 2
    ELSE 1

(* The 1-based position of the axis: 1 is X (idx 0), 2 is Y, 3 is Z *)
PrimaryIndex(abs_disp, max_disp) ==
    IF abs_disp[1] = max_disp THEN 1
    ELSE IF abs_disp[2] = max_disp THEN 2
    ELSE 3

AxisNames == <<"X", "Y", "Z">>

(* A direction label such as "+X" is the pair of its sign and its axis *)
DirectionLabel(sign, axis) == <<sign, axis>>

determine_primary_axis(start, end) ==
    LET displacement == Displacement(start, end)
        abs_disp == <<Abs(displacement[1]), Abs(displacement[2]),
                      Abs(displacement[3])>>
        max_disp == Max3(abs_disp[1], abs_disp[2], abs_disp[3])
        i        == PrimaryIndex(abs_disp, max_disp)
        axis     == AxisNames[i]
    IN  [axis     |-> axis,
         idx      |-> i - 1,
         current  |-> IF displacement[i] > 0 THEN DirectionLabel("+", axis)
                                             ELSE DirectionLabel("-", axis),
         opposite |-> IF displacement[i] > 0 THEN DirectionLabel("-", axis)
                                             ELSE DirectionLabel("+", axis)]

-----------------------------------------------------------------------------
(* Arguments of get_free_endpoint: an element of a selection, with the     *)
(* selection.  Arguments of determine_primary_axis: a start at the origin  *)
(* or at B, and an end on the grid of -2 .. 2 along each axis.             *)

InitFreeEndpoint ==
    /\ fn = "get_free_endpoint"
    /\ \E all_elements \in Selections :
           \E i \in 1..Len(all_elements) :
               args = [element |-> i, all_elements |-> all_elements]
    /\ pc = "call"
    /\ ret = << >>
    /\ sketch = << >>

GetFreeEndpoint ==
    /\ pc = "call"
    /\ fn = "get_free_endpoint"
    /\ ret' = get_free_endpoint(args.element, args.all_elements)
    /\ pc' = "return"
    /\ UNCHANGED <<fn, args, sketch>>

NextFreeEndpoint == GetFreeEndpoint

SpecFreeEndpoint == InitFreeEndpoint /\ [][NextFreeEndpoint]_vars

AxisSteps == {0 - 2, 0 - 1, 0, 1, 2}

AxisEnds ==
    {<<x * TicksPerUnit, y * TicksPerUnit, z * TicksPerUnit>> :
        x \in AxisSteps, y \in AxisSteps, z \in AxisSteps}

InitAxis ==
    /\ fn = "determine_primary_axis"
    /\ \E start \in {PtO, PtB}, end \in AxisEnds :
           args = [start |-> start, end |-> end]
    /\ pc = "call"
    /\ ret = << >>
    /\ sketch = << >>

DeterminePrimaryAxis ==
    /\ pc = "call"
    /\ fn = "determine_primary_axis"
    /\ ret' = determine_primary_axis(args.start, args.end)
    /\ pc' = "return"
    /\ UNCHANGED <<fn, args, sketch>>

NextAxis == DeterminePrimaryAxis

SpecAxis == InitAxis /\ [][NextAxis]_vars

-----------------------------------------------------------------------------
(* Ingestion and calculation over a live sketch.  A PathElement captures   *)
(* its endpoints when it is built and keeps a reference to its entity;     *)
(* generate hands e.entity to calculate_straights_and_bends, which reads   *)
(* the entity's sketch points again.  An entity is its position in sketch. *)

(* PathElement("line", line).__post_init__ *)
IngestedElement(k) ==
    [element_type |-> "line",
     entity       |-> k,
     endpoints    |-> get_sketch_entity_endpoints(sketch[k])]

(* [e.entity for e in ordered_path]: the entities as they are now *)
EntitiesOfPath(ordered_path) ==
    [k \in 1..Len(ordered_path) |-> sketch[ordered_path[k].entity]]

(* What a line of the sketch may be moved to while the command is open *)
MovedLines == {SketchLine(PtO, PtB), SketchLine(PtB, PtC)}

InitIngest ==
    /\ fn = "ingest_and_calculate"
    /\ sketch \in LineLists
    /\ Len(sketch) >= 1
    /\ \E path_start \in {PtO, PtA} :
           args = [arcs       |-> [k \in 1..(Len(sketch) - 1) |->
                                      [radius |-> 5 * TicksPerUnit]],
                   path_start |-> path_start,
                   clr        |-> 5 * TicksPerUnit,
                   units      |-> [cm_to_unit |-> TicksPerUnit]]
    /\ pc = "call"
    /\ ret = << >>

(* The selection's lines become path elements *)
IngestSelection ==
    /\ pc = "call"
    /\ fn = "ingest_and_calculate"
    /\ ret' = [ordered_path |-> [k \in 1..Len(sketch) |-> IngestedElement(k)]]
    /\ pc' = "ingested"
    /\ UNCHANGED <<fn, args, sketch>>

(* The sketch's owner moves one line, once *)
EditSketch ==
    /\ pc = "ingested"
    /\ fn = "ingest_and_calculate"
    /\ \E k \in 1..Len(sketch), line \in MovedLines :
           /\ sketch[k] # line
           /\ sketch' = [sketch EXCEPT ![k] = line]
    /\ pc' = "edited"
    /\ UNCHANGED <<fn, args, ret>>

CalculateFromPath ==
    /\ pc \in {"ingested", "edited"}
    /\ fn = "ingest_and_calculate"
    /\ ret' = [ordered_path |-> ret.ordered_path,
               result |-> calculate_straights_and_bends(
                              EntitiesOfPath(ret.ordered_path), args.arcs,
                              args.path_start, args.clr, args.units)]
    /\ pc' = "return"
    /\ UNCHANGED <<fn, args, sketch>>

NextIngest == IngestSelection \/ EditSketch \/ CalculateFromPath

SpecIngest == InitIngest /\ [][NextIngest]_vars

-----------------------------------------------------------------------------
(* SelectionValidator.validate_for_dialog *)

MIN_SELECTION_COUNT == 3

(* The selected entities that cast to one kind, in selection order *)
CastTo(selections, kind) == SelectSeq(selections, LAMBDA e : e.kind = kind)

(* selections.item(0).entity, None for an empty selection *)
FirstEntity(selections) ==
    IF Len(selections) = 0 THEN None ELSE Some(selections[1])

DetectedClr(arcs, units) ==
    IF Len(arcs) > 0 THEN FMul(arcs[1].radius, units.cm_to_unit) ELSE 0

(* PathElement(kind, entity), its endpoints captured from the entity *)
NewPathElement(kind, entity) ==
    [element_type |-> kind,
     entity       |-> entity,
     endpoints    |-> get_sketch_entity_endpoints(entity)]

(* The lines' elements first, then the arcs' *)
BuildElements(lines, arcs) ==
    [k \in 1..Len(lines) |-> NewPathElement("line", lines[k])]
    \o [k \in 1..Len(arcs) |-> NewPathElement("arc", arcs[k])]

(* A SelectionResult with the defaults of its fields; is_valid, which has  *)
(* no default, is given by every result built from it.                     *)
SelectionResult ==
    [is_valid           |-> FALSE,
     error_message      |-> None,
     lines              |-> << >>,
     arcs               |-> << >>,
     ordered_path       |-> << >>,
     first_entity       |-> None,
     detected_clr       |-> 0,
     component_name     |-> "",
     starts_with_arc    |-> FALSE,
     ends_with_arc      |-> FALSE,
     start_point        |-> None,
     end_point          |-> None,
     primary_axis       |-> "",
     travel_direction   |-> None,
     opposite_direction |-> None]

(* A failure: the fields not given keep their defaults *)
InvalidSelection(error_message, lines, arcs, first_entity, detected_clr) ==
    [SelectionResult EXCEPT !.is_valid      = FALSE,
                            !.error_message = Some(error_message),
                            !.lines         = lines,
                            !.arcs          = arcs,
                            !.first_entity  = first_entity,
                            !.detected_clr  = detected_clr]

ValidSelection(lines, arcs, ordered, first_entity, detected_clr) ==
    LET start_point == get_free_endpoint(1, ordered)
        end_point   == get_free_endpoint(Len(ordered), ordered)
        axis        == determine_primary_axis(start_point, end_point)
    IN  [SelectionResult EXCEPT
            !.is_valid           = TRUE,
            !.lines              = lines,
            !.arcs               = arcs,
            !.ordered_path       = ordered,
            !.first_entity       = first_entity,
            !.detected_clr       = detected_clr,
            !.component_name     = ordered[1].entity.component,
            !.starts_with_arc    = ordered[1].element_type = "arc",
            !.ends_with_arc      = ordered[Len(ordered)].element_type = "arc",
            !.start_point        = Some(start_point),
            !.end_point          = Some(end_point),
            !.primary_axis       = axis.axis,
            !.travel_direction   = Some(axis.current),
            !.opposite_direction = Some(axis.opposite)]

(* Mutant: the alternation of the ordered path is not checked *)
AfterOrdering_NoAlternation(lines, arcs, first_entity, detected_clr, built) ==
    IF built.ordered = None
    THEN InvalidSelection(<<"Path ordering error", built.error>>,
                          lines, arcs, first_entity, detected_clr)
    ELSE ValidSelection(lines, arcs, built.ordered[1], first_entity, detected_clr)

(* From what build_ordered_path gave on *)
AfterOrdering(lines, arcs, first_entity, detected_clr, built) ==
    IF built.ordered = None
    THEN InvalidSelection(<<"Path ordering error", built.error>>,
                          lines, arcs, first_entity, detected_clr)
    ELSE LET checked == validate_path_alternation(built.ordered[1])
         IN  IF ~checked.is_valid
             THEN InvalidSelection(<<"Path structure error", checked.error>>,
                                   lines, arcs, first_entity, detected_clr)
             ELSE ValidSelection(lines, arcs, built.ordered[1], first_entity,
                                 detected_clr)

(* The results validate_for_dialog may give, one for each chain that       *)
(* build_ordered_path may give.                                            *)
validate_for_dialog(selections, units) ==
    IF Len(selections) < MIN_SELECTION_COUNT
    THEN {InvalidSelection(<<"Please select the tube path elements first">>,
                           << >>, << >>, None, 0)}
    ELSE LET lines == CastTo(selections, "line")
             arcs  == CastTo(selections, "arc")
         IN  {AfterOrdering(lines, arcs, FirstEntity(selections),
                            DetectedClr(arcs, units), built) :
                 built \in build_ordered_path(BuildElements(lines, arcs))}

-----------------------------------------------------------------------------
(* Arguments of validate_for_dialog: up to MaxSelection selected entities, *)
(* lines and arcs over the spans of a selection and one entity that is     *)
(* neither.                                                                *)

SketchEntity(kind, p, q) ==
    [kind |-> kind, startSketchPoint |-> p, endSketchPoint |-> q,
     radius |-> 5 * TicksPerUnit, component |-> "Tube"]

SelectedEntities ==
    {SketchEntity(k, s[1], s[2]) : k \in ElementKinds, s \in SelectionSpans}
    \cup {SketchEntity("other", PtO, PtO)}

InitValidate ==
    /\ fn = "validate_for_dialog"
    /\ \E n \in 0..MaxSelection :
           \E selections \in [1..n -> SelectedEntities] :
               args = [selections |-> selections,
                       units      |-> [cm_to_unit |-> TicksPerUnit]]
    /\ pc = "call"
    /\ ret = << >>
    /\ sketch = << >>

ValidateForDialog ==
    /\ pc = "call"
    /\ fn = "validate_for_dialog"
    /\ ret' \in validate_for_dialog(args.selections, args.units)
    /\ pc' = "return"
    /\ UNCHANGED <<fn, args, sketch>>

NextValidate == ValidateForDialog

SpecValidate == InitValidate /\ [][NextValidate]_vars

-----------------------------------------------------------------------------
(* The grip arithmetic of generate in floating point.  A Python float sum  *)
(* or difference is the exact one rounded to the nearest representable     *)
(* value, ties to even.  The floats here are binary floats like Python's   *)
(* with MantissaBits bits of significand (binary64 has 53), over a grid of *)
(* one unit and up to FloatLimit, so that all of them can be enumerated.   *)

MantissaBits == 4
FloatLimit == 64

RECURSIVE BitLength(_)
BitLength(a) == IF a = 0 THEN 0 ELSE 1 + BitLength(a \div 2)

(* The spacing of the floats at magnitude a *)
Ulp(a) ==
    IF BitLength(a) > MantissaBits THEN 2 ^ (BitLength(a) - MantissaBits) ELSE 1

(* Round to nearest, ties to even *)
FloatRound(x) ==
    LET a  == Abs(x)
        u  == Ulp(a)
        q  == a \div u
        r  == a % u
        up == 2 * r > u \/ (2 * r = u /\ q % 2 = 1)
        m  == IF up THEN q + 1 ELSE q
    IN  IF x < 0 THEN 0 - m * u ELSE m * u

FloatAdd(a, b) == FloatRound(a + b)
FloatSub(a, b) == FloatRound(a - b)

Floats == {x \in 0..FloatLimit : FloatRound(x) = x}

(* first_feed = straights[0].length - params.die_offset *)
FloatFirstFeed(length, die_offset) == FloatSub(length, die_offset)

(* Mutant: the extra material is not kept from going negative *)
FloatExtraMaterial_Unclamped(min_grip, first_feed) ==
    IF min_grip > 0 THEN FloatSub(min_grip, first_feed) ELSE 0

(* max(0.0, params.min_grip - first_feed) if params.min_grip > 0 else 0.0 *)
FloatExtraMaterial(min_grip, first_feed) ==
    IF min_grip > 0 THEN Max2(0, FloatSub(min_grip, first_feed)) ELSE 0

(* cumulative = extra_material; cumulative += straight.length: where the   *)
(* first bend starts                                                       *)
FloatFirstBendStartsAt(extra_material, length) == FloatAdd(extra_material, length)

(* mark_position = bend_starts_at - die_offset *)
FloatMarkPosition(bend_starts_at, die_offset) == FloatSub(bend_starts_at, die_offset)

(* What generate makes of min_grip, the first straight's length and        *)
(* die_offset for a chain with a bend: the extra material, and the start   *)
(* and the mark of the first bend.                                         *)
first_mark(min_grip, length, die_offset) ==
    LET first_feed     == FloatFirstFeed(length, die_offset)
        extra_material == FloatExtraMaterial(min_grip, first_feed)
        bend_starts_at == FloatFirstBendStartsAt(extra_material, length)
    IN  [extra_material |-> extra_material,
         bend_starts_at |-> bend_starts_at,
         mark_position  |-> FloatMarkPosition(bend_starts_at, die_offset)]

InitFirstMark ==
    /\ fn = "first_mark"
    /\ args \in [min_grip : Floats, length : Floats, die_offset : Floats]
    /\ pc = "call"
    /\ ret = << >>
    /\ sketch = << >>

FirstMark ==
    /\ pc = "call"
    /\ fn = "first_mark"
    /\ ret' = first_mark(args.min_grip, args.length, args.die_offset)
    /\ pc' = "return"
    /\ UNCHANGED <<fn, args, sketch>>

NextFirstMark == FirstMark

SpecFirstMark == InitFirstMark /\ [][NextFirstMark]_vars

-----------------------------------------------------------------------------
Init == InitClr \/ InitBends \/ InitSegments \/ InitGenerate
        \/ InitOrdering \/ InitAlternation \/ InitFreeEndpoint \/ InitAxis
        \/ InitIngest \/ InitValidate \/ InitFirstMark

Next == NextClr \/ NextBends \/ NextSegments \/ NextGenerate
        \/ NextOrdering \/ NextAlternation \/ NextFreeEndpoint \/ NextAxis
        \/ NextIngest \/ NextValidate \/ NextFirstMark

Spec == Init /\ [][Next]_vars

-----------------------------------------------------------------------------
(* Properties of calculate_straights_and_bends *)

BendsDone == pc = "return" /\ fn = "calculate_straights_and_bends"
BendsReturned == BendsDone /\ ~IsRaised(ret)

(* A point in display units *)
DisplayPoint(p) ==
    <<(p[1] * args.units.cm_to_unit) \div TicksPerUnit,
      (p[2] * args.units.cm_to_unit) \div TicksPerUnit,
      (p[3] * args.units.cm_to_unit) \div TicksPerUnit>>

(* The raw endpoints of line i, in stored order *)
RawStart(i) == args.lines[i].startSketchPoint
RawEnd(i) == args.lines[i].endSketchPoint

(* The squared distance of two points: nearer means a smaller one *)
DistSq(p, q) ==
    (p[1] - q[1]) * (p[1] - q[1]) + (p[2] - q[2]) * (p[2] - q[2])
    + (p[3] - q[3]) * (p[3] - q[3])

(* The raw endpoint of line i that the returned straight i ends at *)
OrientedEnd(i) ==
    CHOOSE e \in {RawStart(i), RawEnd(i)} :
        DisplayPoint(e) = ret.value.straights[i].end

(* The normal of bend k's plane, from the returned straights *)
PlaneNormal(k) ==
    cross_product(ret.value.straights[k].vector,
                  ret.value.straights[k + 1].vector)

(* C6: one StraightSection per line, numbered 1..n in chain order, and one *)
(* BendData per arc, numbered 1..N; bend i's angle is the angle between    *)
(* the vectors of straight i and straight i + 1, and its arc_length is CLR *)
(* times that angle in radians.                                            *)
C6_StraightsAndBendAngles ==
    BendsReturned =>
        LET S == ret.value.straights
            B == ret.value.bends
        IN  /\ Len(S) = Len(args.lines)
            /\ \A i \in 1..Len(S) :
                   /\ S[i].number = i
                   /\ {S[i].start, S[i].end} =
                          {DisplayPoint(RawStart(i)), DisplayPoint(RawEnd(i))}
            /\ Len(B) = Len(args.arcs)
            /\ \A i \in 1..Len(B) :
                   /\ B[i].number = i
                   /\ B[i].angle =
                          angle_between_vectors(S[i].vector,
                                                S[i + 1].vector).value
                   /\ B[i].arc_length =
                          (args.clr * Radians(B[i].angle)) \div TicksPerUnit

C6_Witness ==
    /\ BendsReturned
    /\ Len(ret.value.straights) = 3
    /\ Len(ret.value.bends) = 2
    /\ ret.value.bends[1].angle = 45 * TicksPerUnit
    /\ ret.value.bends[2].angle = 90 * TicksPerUnit
    /\ ret.value.bends[1].arc_length > 0
    /\ ret.value.bends[2].arc_length > ret.value.bends[1].arc_length

(* C7: the first bend's rotation is None (not zero); every later bend k    *)
(* has a defined rotation, that of calculate_rotation on the plane normal  *)
(* of bend k - 1 and the plane normal of bend k, a plane normal being the  *)
(* cross product of the bend's incoming and outgoing straight vectors.     *)
C7_Rotations ==
    BendsReturned =>
        LET B == ret.value.bends
        IN  /\ Len(B) >= 1 => B[1].rotation = None
            /\ \A k \in 2..Len(B) :
                   /\ B[k].rotation # None
                   /\ B[k].rotation =
                          Some(calculate_rotation(PlaneNormal(k - 1),
                                                  PlaneNormal(k)).value)

C7_Witness ==
    /\ BendsReturned
    /\ Len(ret.value.bends) = 2
    /\ ret.value.bends[1].rotation = None
    /\ ret.value.bends[2].rotation = Some(90 * TicksPerUnit)

(* C8: every straight starts at the raw endpoint nearer to its reference   *)
(* point and ends at the other one; the reference is path_start for the    *)
(* first straight and the end of the oriented straight before it for each  *)
(* later one; on a tie the raw order is kept; its vector is end - start.   *)
C8_Orientation ==
    BendsReturned =>
        LET S == ret.value.straights
        IN  \A i \in 1..Len(S) :
               LET ref == IF i = 1 THEN args.path_start ELSE OrientedEnd(i - 1)
               IN  \E o \in {<<RawStart(i), RawEnd(i)>>,
                              <<RawEnd(i), RawStart(i)>>} :
                      /\ S[i].start = DisplayPoint(o[1])
                      /\ S[i].end = DisplayPoint(o[2])
                      /\ S[i].vector = <<o[2][1] - o[1][1],
                                         o[2][2] - o[1][2],
                                         o[2][3] - o[1][3]>>
                      /\ DistSq(o[1], ref) <= DistSq(o[2], ref)
                      /\ DistSq(RawStart(i), ref) = DistSq(RawEnd(i), ref)
                             => o = <<RawStart(i), RawEnd(i)>>

(* The first line is stored backwards and turned round; the second has     *)
(* both ends equally far from the first's end and keeps its order.         *)
C8_Witness ==
    /\ BendsReturned
    /\ Len(ret.value.straights) >= 2
    /\ RawStart(1) # RawEnd(1)
    /\ ret.value.straights[1].start = DisplayPoint(RawEnd(1))
    /\ RawStart(2) # RawEnd(2)
    /\ DistSq(RawStart(2), OrientedEnd(1)) = DistSq(RawEnd(2), OrientedEnd(1))
    /\ ret.value.straights[2].start = DisplayPoint(RawStart(2))

-----------------------------------------------------------------------------
(* Properties of build_segments_and_marks *)

SegmentsDone == pc = "return" /\ fn = "build_segments_and_marks"

(* A chain: N bends and their N + 1 straights *)
IsChain(straights, bends) == Len(straights) = Len(bends) + 1

RECURSIVE SumLengths(_, _)
SumLengths(straights, n) ==
    IF n = 0 THEN 0 ELSE SumLengths(straights, n - 1) + straights[n].length

RECURSIVE SumArcs(_, _)
SumArcs(bends, n) ==
    IF n = 0 THEN 0 ELSE SumArcs(bends, n - 1) + bends[n].arc_length

(* C1: in the returned timeline every segment's ends_at is its starts_at   *)
(* plus its length, and every segment ends where the next one starts (no   *)
(* gap, no overlap), for every list of straights and bends.                *)
C1_TimelineContiguous ==
    SegmentsDone =>
        LET segs == ret.segments
        IN  /\ \A k \in 1..Len(segs) :
                   segs[k].ends_at = segs[k].starts_at + segs[k].length
            /\ \A k \in 1..(Len(segs) - 1) :
                   segs[k].ends_at = segs[k + 1].starts_at

C1_Witness ==
    /\ SegmentsDone
    /\ Len(ret.segments) = 5
    /\ args.extra_material > 0
    /\ \A k \in 1..5 : ret.segments[k].length > 0

C3_MarkPositions ==
    (SegmentsDone /\ IsChain(args.straights, args.bends)) =>
        /\ Len(ret.mark_positions) = Len(args.bends)
        /\ \A k \in 1..Len(args.bends) :
               LET m == ret.mark_positions[k]
                   b == args.bends[k]
               IN  /\ m.bend_num = b.number
                   /\ m.bend_num = k
                   /\ ret.segments[2 * k].name = BendName(k)
                   /\ m.mark_position =
                          ret.segments[2 * k].starts_at - args.die_offset
                   /\ m.mark_position =
                          args.extra_material + SumLengths(args.straights, k)
                          + SumArcs(args.bends, k - 1) - args.die_offset
                   /\ m.bend_angle = b.angle
                   /\ m.rotation = b.rotation

C3_Witness ==
    /\ SegmentsDone
    /\ IsChain(args.straights, args.bends)
    /\ Len(ret.mark_positions) = 2
    /\ args.die_offset > 0
    /\ args.extra_material > 0
    /\ ret.mark_positions[1].rotation = None
    /\ ret.mark_positions[2].rotation # None
    /\ ret.mark_positions[2].mark_position > ret.mark_positions[1].mark_position

(* C4: the timeline starts at extra_material with 'Straight 1'; for N      *)
(* bends and their N + 1 straights it has exactly 2N + 1 segments that     *)
(* alternate straight, bend, ..., straight, bend k lying between straight  *)
(* k and straight k + 1.                                                   *)
C4_Alternation ==
    SegmentsDone =>
        LET segs == ret.segments
            N == Len(args.bends)
        IN  /\ Len(args.straights) > 0 =>
                   /\ segs[1].segment_type = "straight"
                   /\ segs[1].name = StraightName(1)
                   /\ segs[1].starts_at = args.extra_material
            /\ IsChain(args.straights, args.bends) =>
                   /\ Len(segs) = 2 * N + 1
                   /\ \A k \in 1..(N + 1) :
                          /\ segs[2 * k - 1].segment_type = "straight"
                          /\ segs[2 * k - 1].name = StraightName(k)
                   /\ \A k \in 1..N :
                          /\ segs[2 * k].segment_type = "bend"
                          /\ segs[2 * k].name = BendName(k)

C4_Witness ==
    /\ SegmentsDone
    /\ IsChain(args.straights, args.bends)
    /\ Len(args.bends) = 2
    /\ Len(ret.segments) = 5
    /\ ret.segments[1].starts_at = args.extra_material
    /\ args.extra_material > 0

(* C5: every straight segment carries the rotation of the bend that        *)
(* immediately follows it in the timeline (None when no bend follows it or *)
(* that bend's rotation is None); every bend segment has rotation None.    *)
C5_RotationOnStraights ==
    SegmentsDone =>
        LET segs == ret.segments
        IN  \A k \in 1..Len(segs) :
               IF segs[k].segment_type = "bend"
               THEN segs[k].rotation = None
               ELSE IF k < Len(segs) /\ segs[k + 1].segment_type = "bend"
                    THEN \E j \in 1..Len(args.bends) :
                            /\ segs[k + 1].name = BendName(j)
                            /\ segs[k].rotation = args.bends[j].rotation
                    ELSE segs[k].rotation = None

C5_Witness ==
    /\ SegmentsDone
    /\ IsChain(args.straights, args.bends)
    /\ Len(args.bends) = 2
    /\ args.bends[1].rotation = None
    /\ args.bends[2].rotation # None
    /\ ret.segments[1].rotation = None
    /\ ret.segments[3].rotation = args.bends[2].rotation
    /\ ret.segments[5].rotation = None

-----------------------------------------------------------------------------
(* Properties of validate_clr_consistency *)

ClrDone == pc = "return" /\ fn = "validate_clr_consistency"

(* Bend k's radius in display units: radius * cm_to_unit *)
RadiusDisplay(k) ==
    (args.arcs[k].radius * args.units.cm_to_unit) \div TicksPerUnit

(* |a - b| > max(clr * 0.002, 0.001) over the rationals, a, b, clr in      *)
(* ticks: both sides multiplied by 1000.                                   *)
DeviatesBeyondTolerance(a, b, clr) ==
    1000 * Abs(a - b) > Max2(2 * clr, 1000)

(* C9: with no bends the result is CLR 0, no mismatch, no values; when the *)
(* first radius is > 0 it is the CLR, and the mismatch flag is set exactly *)
(* when some radius differs from it by more than max(CLR * 0.002, 0.001).  *)
C9_ClrAndMismatch ==
    ClrDone =>
        LET n == Len(args.arcs)
        IN  /\ n = 0 =>
                   /\ ret.clr = 0
                   /\ ret.has_mismatch = FALSE
                   /\ ret.clr_values = << >>
            /\ (n > 0 /\ RadiusDisplay(1) > 0) =>
                   /\ ret.clr = RadiusDisplay(1)
                   /\ ret.has_mismatch <=>
                          \E k \in 1..n :
                              DeviatesBeyondTolerance(RadiusDisplay(k),
                                                      RadiusDisplay(1),
                                                      RadiusDisplay(1))

(* A consistent pair at the tolerance and a mismatching pair just over it *)
C9_Witness ==
    /\ ClrDone
    /\ Len(args.arcs) = 2
    /\ RadiusDisplay(1) > 0
    /\ RadiusDisplay(2) > RadiusDisplay(1)
    /\ ~ret.has_mismatch
    /\ ret.clr = RadiusDisplay(1)
    /\ 1000 * (RadiusDisplay(2) - RadiusDisplay(1)) = 1000

(* C10: when the first radius is zero or negative the result is CLR 0.0    *)
(* with the mismatch flag set, whatever the other radii are, and all the   *)
(* radius values are still returned.                                       *)
C10_DegenerateClr ==
    (ClrDone /\ Len(args.arcs) > 0 /\ RadiusDisplay(1) <= 0) =>
        /\ ret.clr = 0
        /\ ret.has_mismatch = TRUE
        /\ Len(ret.clr_values) = Len(args.arcs)
        /\ \A k \in 1..Len(args.arcs) : ret.clr_values[k] = RadiusDisplay(k)

C10_Witness ==
    /\ ClrDone
    /\ Len(args.arcs) = 2
    /\ RadiusDisplay(1) = 0
    /\ RadiusDisplay(2) = RadiusDisplay(1)
    /\ ret.has_mismatch
    /\ ret.clr_values = <<0, 0>>

(* C12 as stated, InsufficientGeometryError being read as the failure     *)
(* that reports insufficient vectors: it is what the call ends with        *)
(* whenever there are fewer lines than bends + 1.                          *)
C12_InsufficientGeometryError ==
    (BendsDone /\ Len(args.lines) < Len(args.arcs) + 1) =>
        /\ IsRaised(ret)
        /\ \/ ret.exception = "InsufficientGeometryError"
           \/ ret.message = "Insufficient vectors"

(* C12: with fewer lines than bends + 1 the call raises ValueError and     *)
(* returns nothing, reporting insufficient vectors when there is a line    *)
(* and that no lines were provided when there is none; a returned bend i   *)
(* always has straight i and straight i + 1.                               *)
C12_InsufficientVectors ==
    /\ (BendsDone /\ Len(args.lines) < Len(args.arcs) + 1) =>
           /\ IsRaised(ret)
           /\ ret.exception = "ValueError"
           /\ ret.message = IF Len(args.lines) = 0 THEN "No lines provided"
                                                  ELSE "Insufficient vectors"
    /\ BendsReturned =>
           \A i \in 1..Len(ret.value.bends) :
               {ret.value.bends[i].number, ret.value.bends[i].number + 1}
                   \subseteq {ret.value.straights[k].number :
                                  k \in 1..Len(ret.value.straights)}

(* Two lines under two bends *)
C12_Witness ==
    /\ BendsDone
    /\ Len(args.lines) = 2
    /\ Len(args.arcs) = 2
    /\ IsRaised(ret)
    /\ ret.message = "Insufficient vectors"

(* The direction of line i as stored, and an exact cross product *)
RawVector(i) == Minus(RawEnd(i), RawStart(i))

ExactCross(a, b) ==
    <<a[2] * b[3] - a[3] * b[2],
      a[3] * b[1] - a[1] * b[3],
      a[1] * b[2] - a[2] * b[1]>>

(* Some bend has a given straight next to it whose vector is zero *)
AdjacentStraightDegenerate ==
    \E i \in 1..Len(args.arcs) :
        \E j \in {i, i + 1} \cap (1..Len(args.lines)) :
            RawVector(j) = <<0, 0, 0>>

(* Bend k's plane normal is zero: its two straights are collinear *)
PlaneDegenerate(k) ==
    /\ k + 1 <= Len(args.lines)
    /\ ExactCross(RawVector(k), RawVector(k + 1)) = <<0, 0, 0>>

(* Some bend after the first is compared with a zero plane normal *)
ComparedNormalDegenerate ==
    \E i \in 2..Len(args.arcs) : PlaneDegenerate(i - 1) \/ PlaneDegenerate(i)

(* C13 as stated: a zero straight next to a bend, or a zero normal among   *)
(* those compared for a bend after the first, always ends the call with    *)
(* ZeroVectorError.                                                        *)
C13_AlwaysZeroVectorError ==
    (BendsDone /\ (AdjacentStraightDegenerate \/ ComparedNormalDegenerate)) =>
        /\ IsRaised(ret)
        /\ ret.exception = "ZeroVectorError"

(* C13: a zero straight next to a bend, or a zero normal among those       *)
(* compared for a bend after the first, always ends the call with an       *)
(* exception and no result: ZeroVectorError when there are at least        *)
(* bends + 1 lines, ValueError (insufficient vectors) when there are fewer.*)
C13_DegenerateVectorRaises ==
    (BendsDone /\ (AdjacentStraightDegenerate \/ ComparedNormalDegenerate)) =>
        /\ IsRaised(ret)
        /\ ret.exception =
               IF Len(args.lines) >= Len(args.arcs) + 1 THEN "ZeroVectorError"
                                                        ELSE "ValueError"

(* Three lines, none of them zero, the first two collinear, two bends *)
C13_Witness ==
    /\ BendsDone
    /\ Len(args.lines) = 3
    /\ Len(args.arcs) = 2
    /\ ~AdjacentStraightDegenerate
    /\ PlaneDegenerate(1)
    /\ IsRaised(ret)
    /\ ret.exception = "ZeroVectorError"

-----------------------------------------------------------------------------
(* Properties of generate *)

GenDone == pc = "return" /\ fn = "generate"
GenSucceeded == GenDone /\ ~IsRaised(ret) /\ ret.value.success

(* The BendSheetData of a successful result *)
Sheet == ret.value.data[1]

(* The entities of one kind along the ordered path, from element i on *)
RECURSIVE ChainEntities(_, _)
ChainEntities(kind, i) ==
    IF i > Len(args.ordered_path) THEN << >>
    ELSE IF args.ordered_path[i].element_type = kind
         THEN <<args.ordered_path[i].entity>> \o ChainEntities(kind, i + 1)
         ELSE ChainEntities(kind, i + 1)

ChainLines == ChainEntities("line", 1)
ChainArcs == ChainEntities("arc", 1)

(* The radius of the chain's k-th bend in display units *)
ChainRadius(k) ==
    (ChainArcs[k].radius * args.units.cm_to_unit) \div TicksPerUnit

ChainRadii == [k \in 1..Len(ChainArcs) |-> ChainRadius(k)]

(* Some bend's radius is off the first bend's by more than the tolerance *)
RadiiMismatch ==
    \E k \in 1..Len(ChainArcs) :
        DeviatesBeyondTolerance(ChainRadius(k), ChainRadius(1), ChainRadius(1))

(* The chain's lines alone make calculate_straights_and_bends fail, with   *)
(* one radius for every bend.                                              *)
GeometryFails ==
    IsRaised(calculate_straights_and_bends(ChainLines, ChainArcs,
                 args.start_point, TicksPerUnit, args.units))

(* C11 as stated: under a CLR mismatch generate fails only where the       *)
(* chain's geometry fails, every arc length is the first bend's radius     *)
(* times the bend angle in radians, and the result carries clr_mismatch    *)
(* and all the radii in chain order.                                       *)
C11_FirstRadiusIsWorkingClr ==
    (GenDone /\ RadiiMismatch) =>
        /\ IsRaised(ret) <=> GeometryFails
        /\ ~IsRaised(ret) =>
               /\ ret.value.success
               /\ Sheet.clr_mismatch = TRUE
               /\ Sheet.clr_values = ChainRadii
               /\ \A i \in 1..Len(Sheet.bends) :
                      Sheet.bends[i].arc_length =
                          (ChainRadius(1) * Radians(Sheet.bends[i].angle))
                              \div TicksPerUnit

(* The CLR the arc lengths are computed with: the first bend's radius      *)
(* when it is positive, 0.0 when it is zero or negative.                   *)
WorkingClr == IF ChainRadius(1) > 0 THEN ChainRadius(1) ELSE 0

(* C11: under a CLR mismatch generate fails only where the chain's         *)
(* geometry fails; it succeeds otherwise, with clr_mismatch set, all the   *)
(* radii in chain order, and every arc length computed with the first      *)
(* bend's radius when that is positive and with 0.0 when it is not.        *)
C11_MismatchReported ==
    (GenDone /\ RadiiMismatch) =>
        /\ IsRaised(ret) <=> GeometryFails
        /\ ~IsRaised(ret) =>
               /\ ret.value.success
               /\ Sheet.clr = WorkingClr
               /\ Sheet.clr_mismatch = TRUE
               /\ Sheet.clr_values = ChainRadii
               /\ \A i \in 1..Len(Sheet.bends) :
                      Sheet.bends[i].arc_length =
                          (WorkingClr * Radians(Sheet.bends[i].angle))
                              \div TicksPerUnit

(* Two bends of radius 5.0 and 5.011 in a chain that is generated *)
C11_Witness ==
    /\ GenSucceeded
    /\ RadiiMismatch
    /\ Len(Sheet.bends) = 2
    /\ ChainRadius(1) > 0
    /\ ChainRadius(2) > ChainRadius(1)
    /\ Sheet.clr_mismatch
    /\ Sheet.bends[2].arc_length > 0

(* C14: when the ordered path has no line, generate returns a result with *)
(* success = false, an error message and no data.                          *)
C14_NoStraightsReported ==
    (GenDone /\ Len(ChainLines) = 0) =>
        /\ ~IsRaised(ret)
        /\ ret.value.success = FALSE
        /\ ret.value.error # ""
        /\ ret.value.data = None

(* C15: the first feed is the first straight's length less die_offset;    *)
(* extra_material is max(0, min_grip - first feed) when min_grip > 0 and 0 *)
(* otherwise; the timeline starts at extra_material, and the cut length is *)
(* the centerline length plus extra_material.                              *)
C15_ExtraMaterial ==
    GenSucceeded =>
        LET feed == Sheet.straights[1].length - args.params.die_offset
            grip == args.params.min_grip
        IN  /\ grip > 0 /\ grip - feed > 0 => Sheet.extra_material = grip - feed
            /\ grip > 0 /\ grip - feed <= 0 => Sheet.extra_material = 0
            /\ grip <= 0 => Sheet.extra_material = 0
            /\ Sheet.segments[1].starts_at = Sheet.extra_material
            /\ Sheet.total_cut_length - Sheet.total_centerline =
                   Sheet.extra_material

(* A first feed that die_offset makes shorter than min_grip *)
C15_Witness ==
    /\ GenSucceeded
    /\ args.params.die_offset > 0
    /\ args.params.min_grip > Sheet.straights[1].length - args.params.die_offset
    /\ args.params.min_grip < Sheet.straights[1].length
    /\ Sheet.extra_material > 0
    /\ Sheet.segments[1].starts_at > 0

(* C16: grip_violations holds, in chain order, exactly the numbers of the  *)
(* straights other than the last that are shorter than min_grip; it is     *)
(* empty when min_grip is 0 or there is one straight; and generate         *)
(* succeeds whenever the chain's geometry does not fail.                   *)
C16_GripViolations ==
    /\ GenSucceeded =>
           LET S == Sheet.straights
               G == Sheet.grip_violations
           IN  /\ \A k \in 1..(Len(G) - 1) : G[k] < G[k + 1]
               /\ {G[k] : k \in 1..Len(G)} =
                      {S[k].number : k \in {j \in 1..(Len(S) - 1) :
                                               S[j].length < args.params.min_grip}}
               /\ (args.params.min_grip = 0 \/ Len(S) = 1) => G = << >>
               /\ \A k \in 1..Len(G) : G[k] # S[Len(S)].number
    /\ (GenDone /\ ~GeometryFails) => ~IsRaised(ret) /\ ret.value.success

(* Three straights: the second and the last are shorter than min_grip, the *)
(* first is not.                                                           *)
C16_Witness ==
    /\ GenSucceeded
    /\ Len(Sheet.straights) = 3
    /\ Sheet.straights[1].length >= args.params.min_grip
    /\ Sheet.straights[2].length < args.params.min_grip
    /\ Sheet.straights[3].length < args.params.min_grip
    /\ Sheet.grip_violations = <<2>>

(* C17: tail_violation is set exactly when min_tail > 0 and the last       *)
(* straight is shorter than min_tail, whatever the other straights are;    *)
(* and generate succeeds whenever the chain's geometry does not fail.      *)
C17_TailViolation ==
    /\ GenSucceeded =>
           LET S == Sheet.straights
           IN  Sheet.tail_violation <=>
                   /\ args.params.min_tail > 0
                   /\ S[Len(S)].length < args.params.min_tail
    /\ (GenDone /\ ~GeometryFails) => ~IsRaised(ret) /\ ret.value.success

(* A first straight shorter than min_tail before a last one that is not *)
C17_Witness ==
    /\ GenSucceeded
    /\ Len(Sheet.straights) = 2
    /\ args.params.min_tail > 0
    /\ Sheet.straights[1].length < args.params.min_tail
    /\ Sheet.straights[2].length >= args.params.min_tail
    /\ ~Sheet.tail_violation

-----------------------------------------------------------------------------
(* Properties of path ordering *)

OrderingDone == pc = "return" /\ fn = "build_ordered_path"

(* No endpoint of one element within the tolerance of an endpoint of       *)
(* another, by squared distances.                                          *)
MutuallyDisjoint ==
    \A i, j \in 1..Len(args.elements) :
        i # j =>
            \A a, b \in 1..2 :
                DistSq(args.elements[i].endpoints[a],
                       args.elements[j].endpoints[b])
                    >= CONNECTIVITY_TOLERANCE * CONNECTIVITY_TOLERANCE

(* C19 as stated: every non-empty selection of mutually disjoint segments  *)
(* gets an ordering error and no chain.                                    *)
C19_DisjointAlwaysFails ==
    (OrderingDone /\ Len(args.elements) >= 1 /\ MutuallyDisjoint) =>
        /\ ret.ordered = None
        /\ ret.error # ""

(* C19: a selection of two or more mutually disjoint segments gets an      *)
(* ordering error and no chain; a single segment is ordered as it is.      *)
C19_DisjointFails ==
    (OrderingDone /\ MutuallyDisjoint) =>
        /\ Len(args.elements) >= 2 => ret.ordered = None /\ ret.error # ""
        /\ Len(args.elements) = 1 => ret.ordered = Some(args.elements)

(* Three segments far from each other *)
C19_Witness ==
    /\ OrderingDone
    /\ Len(args.elements) = 3
    /\ MutuallyDisjoint
    /\ ret.ordered = None

AlternationDone == pc = "return" /\ fn = "validate_path_alternation"

(* Elements i and i + 1 of the chain are of the same kind *)
SameKindAt(i) ==
    args.ordered[i].element_type = args.ordered[i + 1].element_type

(* C20: validation fails exactly when two consecutive elements of the      *)
(* chain are of the same kind, and the error then names two such elements  *)
(* by number; an alternating chain is accepted whichever kind it starts    *)
(* and ends with.                                                          *)
C20_Alternation ==
    AlternationDone =>
        /\ ret.is_valid = FALSE <=>
               \E i \in 1..(Len(args.ordered) - 1) : SameKindAt(i)
        /\ ret.is_valid = FALSE =>
               /\ ret.error # None
               /\ ret.error[1][1] = "AlternationError"
               /\ ret.error[1][2] \in 1..(Len(args.ordered) - 1)
               /\ ret.error[1][3] = ret.error[1][2] + 1
               /\ SameKindAt(ret.error[1][2])
        /\ ret.is_valid = TRUE => ret.error = None

(* An alternating chain that starts and ends with a bend *)
C20_Witness ==
    /\ AlternationDone
    /\ Len(args.ordered) = 3
    /\ args.ordered[1].element_type = "arc"
    /\ args.ordered[2].element_type = "line"
    /\ args.ordered[3].element_type = "arc"
    /\ ret.is_valid = TRUE

-----------------------------------------------------------------------------
(* Properties of get_free_endpoint and determine_primary_axis *)

FreeEndpointDone == pc = "return" /\ fn = "get_free_endpoint"

(* Endpoint a of the given element lies within the tolerance of no         *)
(* endpoint of any other element of the list, by squared distances.        *)
EndpointFree(a) ==
    \A j \in (1..Len(args.all_elements)) \ {args.element} :
        \A b \in 1..2 :
            DistSq(args.all_elements[args.element].endpoints[a],
                   args.all_elements[j].endpoints[b])
                >= CONNECTIVITY_TOLERANCE * CONNECTIVITY_TOLERANCE

(* C21: get_free_endpoint returns the element's first endpoint, in stored  *)
(* order, that is within the tolerance of no endpoint of another element;  *)
(* the first endpoint when both are connected; and the first endpoint for  *)
(* a single-element list.                                                  *)
C21_FreeEndpoint ==
    FreeEndpointDone =>
        LET endpoints == args.all_elements[args.element].endpoints
        IN  /\ ret \in {endpoints[1], endpoints[2]}
            /\ EndpointFree(1) => ret = endpoints[1]
            /\ (~EndpointFree(1) /\ EndpointFree(2)) => ret = endpoints[2]
            /\ (~EndpointFree(1) /\ ~EndpointFree(2)) => ret = endpoints[1]
            /\ Len(args.all_elements) = 1 => ret = endpoints[1]

(* The last element of a chain of three, stored towards the chain: its     *)
(* second endpoint is the free one.                                        *)
C21_Witness ==
    /\ FreeEndpointDone
    /\ Len(args.all_elements) = 3
    /\ ~EndpointFree(1)
    /\ EndpointFree(2)
    /\ ret = args.all_elements[args.element].endpoints[2]
    /\ ret # args.all_elements[args.element].endpoints[1]

AxisDone == pc = "return" /\ fn = "determine_primary_axis"

(* The displacement from start to end along axis k (1 is X, 2 Y, 3 Z) *)
Along(k) == args.end[k] - args.start[k]

(* C22: the axis is the first of X, Y, Z whose absolute displacement is    *)
(* the greatest (X for no displacement); current is +axis when the         *)
(* displacement along it is positive and -axis otherwise; opposite is the  *)
(* other sign of the same axis.                                            *)
C22_PrimaryAxis ==
    AxisDone =>
        LET k == ret.idx + 1
        IN  /\ k \in 1..3
            /\ ret.axis = <<"X", "Y", "Z">>[k]
            /\ \A j \in 1..3 : Abs(Along(j)) <= Abs(Along(k))
            /\ \A j \in 1..(k - 1) : Abs(Along(j)) < Abs(Along(k))
            /\ Along(k) > 0 => ret.current = <<"+", ret.axis>>
            /\ Along(k) <= 0 => ret.current = <<"-", ret.axis>>
            /\ ret.opposite[2] = ret.axis
            /\ ret.opposite[1] \in {"+", "-"}
            /\ ret.opposite[1] # ret.current[1]

(* A negative displacement that ties between Y and Z, X being smaller *)
C22_Witness ==
    /\ AxisDone
    /\ Abs(Along(2)) = Abs(Along(3))
    /\ Abs(Along(1)) < Abs(Along(2))
    /\ Along(2) < 0
    /\ ret.axis = "Y"
    /\ ret.current = <<"-", "Y">>
    /\ ret.opposite = <<"+", "Y">>

-----------------------------------------------------------------------------
(* Properties of ingestion *)

IngestDone == pc = "return" /\ fn = "ingest_and_calculate"

(* C23: the straights computed for a chain lie on the endpoints its        *)
(* elements captured at ingestion, whatever has become of the source       *)
(* since: straight i joins the two captured endpoints of element i.        *)
C23_CapturedEndpointsOnly ==
    (IngestDone /\ ~IsRaised(ret.result)) =>
        \A i \in 1..Len(ret.ordered_path) :
            {ret.result.value.straights[i].start,
             ret.result.value.straights[i].end} =
                {ToDisplay(ret.ordered_path[i].endpoints[1], args.units),
                 ToDisplay(ret.ordered_path[i].endpoints[2], args.units)}

-----------------------------------------------------------------------------
(* Further properties of build_segments_and_marks *)

(* The straight and the bend segments of the returned timeline, in order *)
StraightSegments == SelectSeq(ret.segments, LAMBDA g : g.segment_type = "straight")
BendSegments == SelectSeq(ret.segments, LAMBDA g : g.segment_type = "bend")

(* The bends are as calculate_straights_and_bends gives them: the first    *)
(* has no rotation, every later one has.                                   *)
RotationsAsCalculated ==
    \A j \in 1..Len(args.bends) : (args.bends[j].rotation = None) <=> (j = 1)

(* C24 as stated, for bends as they are calculated: the straight right     *)
(* after bend k in the timeline carries bend k's rotation, and the first   *)
(* straight carries none.                                                  *)
C24_RotationAfterBend ==
    (SegmentsDone /\ RotationsAsCalculated) =>
        /\ \A k \in 1..(Len(ret.segments) - 1) :
               (/\ ret.segments[k].segment_type = "bend"
                /\ ret.segments[k + 1].segment_type = "straight") =>
                   \E j \in 1..Len(args.bends) :
                       /\ ret.segments[k].name = BendName(args.bends[j].number)
                       /\ ret.segments[k + 1].rotation = args.bends[j].rotation
        /\ Len(ret.segments) > 0 => ret.segments[1].rotation = None

(* C24: the i-th straight of the timeline carries the rotation of the i-th *)
(* bend given, which is the bend right after it, and none when there is no *)
(* i-th bend; so the straight right after bend k carries the rotation of   *)
(* bend k + 1, and the first straight that of bend 1.                      *)
C24_RotationBeforeBend ==
    SegmentsDone =>
        /\ Len(StraightSegments) = Len(args.straights)
        /\ \A i \in 1..Len(StraightSegments) :
               StraightSegments[i].rotation =
                   IF i <= Len(args.bends) THEN args.bends[i].rotation ELSE None

(* Three straights and two bends of different rotations: the straight      *)
(* after bend 1 carries bend 2's rotation, not bend 1's.                   *)
C24_Witness ==
    /\ SegmentsDone
    /\ Len(args.straights) = 3
    /\ Len(args.bends) = 2
    /\ args.bends[1].rotation = None
    /\ args.bends[2].rotation # None
    /\ ret.segments[2].segment_type = "bend"
    /\ ret.segments[3].rotation = args.bends[2].rotation

-----------------------------------------------------------------------------
(* Further properties of generate *)

(* The ordered path starts or ends with an arc *)
StartsOrEndsWithArc ==
    /\ Len(args.ordered_path) > 0
    /\ \/ args.ordered_path[1].element_type = "arc"
       \/ args.ordered_path[Len(args.ordered_path)].element_type = "arc"

-----------------------------------------------------------------------------
(* Properties of validate_for_dialog *)

ValidateDone == fn = "validate_for_dialog" /\ pc = "return"

SelectedGeometry ==
    SelectSeq(args.selections, LAMBDA e : e.kind \in {"line", "arc"})

Occurrences(entity, entities) ==
    Cardinality({k \in 1..Len(entities) : entities[k] = entity})

(* The path holds the selected lines and arcs, each as often as selected *)
PathHoldsSelection(path) ==
    /\ Len(path) = Len(SelectedGeometry)
    /\ \A k \in 1..Len(path) :
           /\ path[k].element_type = path[k].entity.kind
           /\ path[k].endpoints = <<path[k].entity.startSketchPoint,
                                    path[k].entity.endSketchPoint>>
           /\ Occurrences(path[k].entity, [j \in 1..Len(path) |-> path[j].entity])
                  = Occurrences(path[k].entity, SelectedGeometry)

WithinTolerance(p, q) ==
    DistSq(p, q) < CONNECTIVITY_TOLERANCE * CONNECTIVITY_TOLERANCE

PathConnected(path) ==
    \A k \in 1..(Len(path) - 1) :
        \E a \in 1..2, b \in 1..2 :
            WithinTolerance(path[k].endpoints[a], path[k + 1].endpoints[b])

PathAlternates(path) ==
    \A k \in 1..(Len(path) - 1) : path[k].element_type # path[k + 1].element_type

(* p is an endpoint of element i of the path that no other element touches *)
FreeEndpointOf(path, i, p) ==
    \E a \in 1..2 :
        /\ p = path[i].endpoints[a]
        /\ \A j \in (1..Len(path)) \ {i} :
               \A b \in 1..2 : ~WithinTolerance(p, path[j].endpoints[b])

SelectedElements ==
    BuildElements(CastTo(args.selections, "line"), CastTo(args.selections, "arc"))

OrderingCanFail == \E built \in build_ordered_path(SelectedElements) : built.ordered = None

OrderingCanPass == \E built \in build_ordered_path(SelectedElements) : built.ordered # None

ErrorKind == ret.error_message[1][1]

(* C26: validate_for_dialog checks the selection count first, then the     *)
(* ordering of the selected lines and arcs into a chain, then the          *)
(* alternation of the chain, and reports the first check that fails. A     *)
(* valid result has passed all three: its ordered_path is a connected,     *)
(* alternating chain of all the selected lines and arcs and its            *)
(* start_point and end_point are free endpoints of the chain's first and   *)
(* last element. An invalid result has an error message, an empty          *)
(* ordered_path and no start_point or end_point.                           *)
C26_ChecksInOrder ==
    ValidateDone =>
        /\ Len(args.selections) < MIN_SELECTION_COUNT =>
               /\ ~ret.is_valid
               /\ ErrorKind = "Please select the tube path elements first"
        /\ (Len(args.selections) >= MIN_SELECTION_COUNT /\ ~ret.is_valid) =>
               /\ ErrorKind \in {"Path ordering error", "Path structure error"}
               /\ ErrorKind = "Path ordering error" => OrderingCanFail
               /\ ErrorKind = "Path structure error" => OrderingCanPass
        /\ ret.is_valid =>
               /\ Len(args.selections) >= MIN_SELECTION_COUNT
               /\ ret.error_message = None
               /\ OrderingCanPass
               /\ PathHoldsSelection(ret.ordered_path)
               /\ PathConnected(ret.ordered_path)
               /\ PathAlternates(ret.ordered_path)
               /\ ret.start_point # None
               /\ ret.end_point # None
               /\ FreeEndpointOf(ret.ordered_path, 1, ret.start_point[1])
               /\ FreeEndpointOf(ret.ordered_path, Len(ret.ordered_path),
                                 ret.end_point[1])
        /\ ~ret.is_valid =>
               /\ ret.error_message # None
               /\ ret.error_message[1] # << >>
               /\ ret.ordered_path = << >>
               /\ ret.start_point = None
               /\ ret.end_point = None

(* A selection of three connected entities is accepted *)
C26_Witness ==
    /\ ValidateDone
    /\ ret.is_valid
    /\ Len(ret.ordered_path) = 3
    /\ ret.start_point # ret.end_point

-----------------------------------------------------------------------------
(* More bends than straights *)

SegmentsOfBend(k) ==
    {j \in 1..Len(ret.segments) :
        /\ ret.segments[j].segment_type = "bend"
        /\ ret.segments[j].name = <<"BEND", args.bends[k].number>>}

(* C27: there are as many marks as bends given, whatever the numbers of    *)
(* straights and bends. With more bends than straights, the bends up to    *)
(* the number of straights each have a segment in the timeline; each       *)
(* surplus bend has no segment and its mark is at 0 - die_offset.          *)
C27_SurplusBends ==
    SegmentsDone =>
        /\ Len(ret.mark_positions) = Len(args.bends)
        /\ Len(args.bends) > Len(args.straights) =>
               \A k \in 1..Len(args.bends) :
                   /\ ret.mark_positions[k].bend_num = args.bends[k].number
                   /\ k <= Len(args.straights) =>
                          Cardinality(SegmentsOfBend(k)) = 1
                   /\ k > Len(args.straights) =>
                          /\ SegmentsOfBend(k) = {}
                          /\ ret.mark_positions[k].mark_position
                                 = 0 - args.die_offset

(* Two straights and three bends, with a die offset and extra material *)
C27_Witness ==
    /\ SegmentsDone
    /\ Len(args.straights) = 2
    /\ Len(args.bends) = 3
    /\ args.die_offset > 0
    /\ args.extra_material > 0
    /\ ret.mark_positions[3].mark_position < 0

-----------------------------------------------------------------------------
(* Degenerate radii *)

SomeRadiusDegenerate ==
    \E k \in 1..Len(args.arcs) : RadiusDisplay(k) <= 0

(* C28: whenever some bend's radius is zero or negative, the first bend's  *)
(* or a later one's, the mismatch flag is set.                             *)
C28_DegenerateRadiusFlagged ==
    (ClrDone /\ SomeRadiusDegenerate) => ret.has_mismatch = TRUE

-----------------------------------------------------------------------------
(* Grip and mark of the first bend *)

FirstMarkDone == fn = "first_mark" /\ pc = "return"

(* C29 as stated: extra_material is never negative, and with a min_grip    *)
(* the first bend's mark position, extra_material + first straight length  *)
(* - die_offset, is at least min_grip.                                     *)
C29_GripMet ==
    FirstMarkDone =>
        /\ ret.extra_material >= 0
        /\ args.min_grip > 0 => ret.mark_position >= args.min_grip

(* C29: extra_material is never negative. With a min_grip and no extra     *)
(* material the first bend's mark position is at least min_grip; with      *)
(* extra material it is min_grip up to the rounding of the sums, falling   *)
(* short of it by no more than two spacings of the floats at the first     *)
(* bend's start.                                                           *)
C29_GripMetUpToRounding ==
    FirstMarkDone =>
        /\ ret.extra_material >= 0
        /\ (args.min_grip > 0 /\ ret.extra_material = 0) =>
               ret.mark_position >= args.min_grip
        /\ args.min_grip > 0 =>
               args.min_grip - ret.mark_position <= 2 * Ulp(ret.bend_starts_at)

(* Extra material that brings the first mark to min_grip exactly *)
C29_Witness ==
    /\ FirstMarkDone
    /\ args.min_grip > 0
    /\ args.die_offset > 0
    /\ args.length > args.die_offset
    /\ ret.extra_material > 0
    /\ ret.mark_position = args.min_grip

-----------------------------------------------------------------------------
(* Order along the timeline *)

NonNegativeInputs ==
    /\ args.extra_material >= 0
    /\ \A k \in 1..Len(args.straights) : args.straights[k].length >= 0
    /\ \A k \in 1..Len(args.bends) : args.bends[k].arc_length >= 0

(* C30: with no negative straight length, arc length or extra material,    *)
(* every segment has extra_material <= starts_at <= ends_at, starts_at     *)
(* never decreases along the timeline, and for N + 1 straights and N bends *)
(* the mark positions never decrease in bend order.                        *)
C30_TimelineOrdered ==
    (SegmentsDone /\ NonNegativeInputs) =>
        /\ \A k \in 1..Len(ret.segments) :
               /\ args.extra_material <= ret.segments[k].starts_at
               /\ ret.segments[k].starts_at <= ret.segments[k].ends_at
        /\ \A k \in 1..(Len(ret.segments) - 1) :
               ret.segments[k].starts_at <= ret.segments[k + 1].starts_at
        /\ IsChain(args.straights, args.bends) =>
               \A k \in 1..(Len(ret.mark_positions) - 1) :
                   ret.mark_positions[k].mark_position
                       <= ret.mark_positions[k + 1].mark_position

(* Three straights and two bends after extra material, the second straight *)
(* of length 0                                                             *)
C30_Witness ==
    /\ SegmentsDone
    /\ Len(args.straights) = 3
    /\ Len(args.bends) = 2
    /\ args.extra_material > 0
    /\ args.straights[2].length = 0
    /\ ret.segments[1].starts_at = args.extra_material
    /\ ret.mark_positions[1].mark_position < ret.mark_positions[2].mark_position

=============================================================================
